---- MODULE Spec2Model ----
(***************************************************************************)
(* A model of heap_class.Heap (src/heap_class/__init__.py): a list-like    *)
(* priority queue built on the heapq primitives.                           *)
(*                                                                         *)
(* Python values are tagged pairs: PyInt(n) is the int n, PyTuple(s) the   *)
(* tuple whose elements are the sequence s, None is None.  List positions  *)
(* are 0-based as in the source; At/Put translate to 1-based sequences.    *)
(* A call's outcome is a record: the list (or the buffer and orientation)  *)
(* afterwards, the value returned and the exception raised ("" for none).  *)
(* A behaviour follows one Heap up to the first call that raises: the      *)
(* raising call and what it leaves behind are part of it, calls made on    *)
(* the object after the exception are not.                                 *)
(*                                                                         *)
(* Spec follows the methods of one Heap, SpecIter its generators, SpecOwn  *)
(* a Heap together with the caller's list and with the Heap copy() or      *)
(* reversed() returned, SpecBoth a Heap together with the Heap of          *)
(* src/heap_class/no_private_imports.py given the same calls.              *)
(***************************************************************************)
EXTENDS Integers, Sequences, FiniteSets, TLC

(* ---------------------------- bounds ---------------------------------- *)
MaxLen == 3      \* longest buffer explored
MaxItem == 2     \* callers store ItemOf(0) .. ItemOf(MaxItem)
MaxExt == 2      \* longest argument handed to extend
MaxIter == 2     \* generators of one heap alive at once
MaxOwn == 2      \* longest buffer of two objects explored together
MaxMix == 4      \* longest buffer iterated while the heap is mutated
MaxMixItem == 1  \* its items are ItemOf(0) .. ItemOf(MaxMixItem)

VARIABLES
    heap,             \* self._heap
    max,              \* self.max
    key,              \* self.key: "None" or "second" (lambda name: name[1])
    C_LANGUAGE_HEAP,  \* module flag: heapq comes with its C accelerator
    last,             \* the last call: [op, err], the method and what it raised
    completed,        \* every call so far returned without raising
    iters,            \* the generators iter(h) returned, see Iter below
    other,            \* a second object: the caller's list or another Heap
    shared,           \* other's list is the list object self._heap
    neg               \* a no_private_imports.Heap fed the same calls

aux == <<other, shared, neg>>
vars == <<heap, max, key, C_LANGUAGE_HEAP, last, completed, iters, aux>>

(* ---------------------------- values ---------------------------------- *)
PyInt(n) == <<"int", n>>
PyTuple(s) == <<"tuple", s>>
None == <<"None", 0>>

IsInt(v) == v[1] = "int"
IsTuple(v) == v[1] = "tuple"

Min2(a, b) == IF a < b THEN a ELSE b

\* first index at which two element sequences differ, 0 when one is a
\* prefix of the other (tuple comparison looks for it with ==)
FirstDiff(s, t) ==
    LET D == {i \in 1..Min2(Len(s), Len(t)) : s[i] # t[i]}
    IN IF D = {} THEN 0 ELSE CHOOSE i \in D : \A j \in D : i <= j

\* a < b evaluates without TypeError
RECURSIVE Orderable(_, _)
OrderableAt(s, t, i) == IF i = 0 THEN TRUE ELSE Orderable(s[i], t[i])
Orderable(a, b) ==
    IF IsInt(a) /\ IsInt(b) THEN TRUE
    ELSE IF IsTuple(a) /\ IsTuple(b)
         THEN OrderableAt(a[2], b[2], FirstDiff(a[2], b[2]))
         ELSE FALSE

\* the value of a < b when it is Orderable
RECURSIVE PyLt(_, _)
PyLtAt(s, t, i) == IF i = 0 THEN Len(s) < Len(t) ELSE PyLt(s[i], t[i])
PyLt(a, b) ==
    IF IsInt(a) /\ IsInt(b) THEN a[2] < b[2]
    ELSE IF IsTuple(a) /\ IsTuple(b)
         THEN PyLtAt(a[2], b[2], FirstDiff(a[2], b[2]))
         ELSE FALSE

At(h, i) == h[i + 1]
Put(h, i, v) == [h EXCEPT ![i + 1] = v]

(* ---------------------------- heapq ----------------------------------- *)
(* The sift routines move a hole (heapq.py) or swap (the C accelerator).   *)
(* Both leave the same list when no comparison raises; when one raises,    *)
(* the hole version still holds the stale entry at pos where the swap      *)
(* version holds newitem.  h below is the hole version's list.             *)
Raised(h, pos, newitem, hole) ==
    [h |-> IF hole THEN h ELSE Put(h, pos, newitem), err |-> "TypeError"]

\* the comparison of the orientation: a < b, or b < a for the max variants
Before(a, b, isMax) == IF isMax THEN PyLt(b, a) ELSE PyLt(a, b)

RECURSIVE SiftdownLoop(_, _, _, _, _, _)
SiftdownLoop(h, startpos, pos, newitem, isMax, hole) ==
    IF pos <= startpos THEN [h |-> Put(h, pos, newitem), err |-> ""]
    ELSE IF ~Orderable(newitem, At(h, (pos - 1) \div 2))
         THEN Raised(h, pos, newitem, hole)
    ELSE IF Before(newitem, At(h, (pos - 1) \div 2), isMax)
         THEN SiftdownLoop(Put(h, pos, At(h, (pos - 1) \div 2)), startpos,
                           (pos - 1) \div 2, newitem, isMax, hole)
         ELSE [h |-> Put(h, pos, newitem), err |-> ""]

\* childpos, moved to the right child unless the left one comes before it
SmallerChild(h, childpos, isMax) ==
    IF childpos + 1 < Len(h)
       /\ ~Before(At(h, childpos), At(h, childpos + 1), isMax)
    THEN childpos + 1 ELSE childpos

RECURSIVE SiftupLoop(_, _, _, _, _, _)
SiftupMove(h, startpos, pos, c, newitem, isMax, hole) ==
    SiftupLoop(Put(h, pos, At(h, c)), startpos, c, newitem, isMax, hole)
SiftupLoop(h, startpos, pos, newitem, isMax, hole) ==
    IF 2 * pos + 1 >= Len(h)
    THEN SiftdownLoop(Put(h, pos, newitem), startpos, pos,
                      newitem, isMax, hole)
    ELSE IF 2 * pos + 2 < Len(h)
            /\ ~Orderable(At(h, 2 * pos + 1), At(h, 2 * pos + 2))
         THEN Raised(h, pos, newitem, hole)
    ELSE SiftupMove(h, startpos, pos, SmallerChild(h, 2 * pos + 1, isMax),
                    newitem, isMax, hole)

_siftdown(h, startpos, pos) ==
    SiftdownLoop(h, startpos, pos, At(h, pos), FALSE, ~C_LANGUAGE_HEAP)
_siftup(h, pos) ==
    SiftupLoop(h, pos, pos, At(h, pos), FALSE, ~C_LANGUAGE_HEAP)
\* the two private max sifts the module imports are always heapq.py's
_siftdown_max(h, startpos, pos) ==
    SiftdownLoop(h, startpos, pos, At(h, pos), TRUE, TRUE)
_siftup_max(h, pos) ==
    SiftupLoop(h, pos, pos, At(h, pos), TRUE, TRUE)
\* the sift inside heappop / heapreplace / heapify and their max variants
SiftupBuiltin(h, pos, isMax) ==
    SiftupLoop(h, pos, pos, At(h, pos), isMax, ~C_LANGUAGE_HEAP)

\* for i in reversed(range(n//2)): siftup(x, i)
RECURSIVE HeapifyFrom(_, _, _)
HeapifyNext(r, i, isMax) ==
    IF r.err # "" THEN r ELSE HeapifyFrom(r.h, i - 1, isMax)
HeapifyFrom(x, i, isMax) ==
    IF i < 0 THEN [h |-> x, err |-> ""]
    ELSE HeapifyNext(SiftupBuiltin(x, i, isMax), i, isMax)

heapify(x) == HeapifyFrom(x, (Len(x) \div 2) - 1, FALSE)
heapify_max(x) == HeapifyFrom(x, (Len(x) \div 2) - 1, TRUE)

Res(h, ret, err) == [h |-> h, ret |-> ret, err |-> err]
\* the call returns v unless the sift r raised
Returning(r, v) == Res(r.h, IF r.err = "" THEN v ELSE None, r.err)

heappush(h, item) == Returning(_siftdown(Append(h, item), 0, Len(h)), None)

\* a pop that moves the last entry to the root and does not sift it
PopWith_nosift(h, isMax) ==
    IF h = <<>> THEN Res(h, None, "IndexError")
    ELSE IF Len(h) = 1 THEN Res(<<>>, h[1], "")
    ELSE Res(Put(SubSeq(h, 1, Len(h) - 1), 0, h[Len(h)]), At(h, 0), "")

\* lastelt = heap.pop(); if heap: returnitem = heap[0]; heap[0] = lastelt;
\* siftup(heap, 0); return returnitem; else return lastelt
PopWith(h, isMax) ==
    IF h = <<>> THEN Res(h, None, "IndexError")
    ELSE IF Len(h) = 1 THEN Res(<<>>, h[1], "")
    ELSE Returning(SiftupBuiltin(Put(SubSeq(h, 1, Len(h) - 1), 0, h[Len(h)]),
                                 0, isMax),
                   At(h, 0))

heappop(h) == PopWith(h, FALSE)
heappop_max(h) == PopWith(h, TRUE)

\* returnitem = heap[0]; heap[0] = item; siftup(heap, 0); return returnitem
ReplaceWith(h, item, isMax) ==
    IF h = <<>> THEN Res(h, None, "IndexError")
    ELSE Returning(SiftupBuiltin(Put(h, 0, item), 0, isMax), At(h, 0))

heapreplace(h, item) == ReplaceWith(h, item, FALSE)
heapreplace_max(h, item) == ReplaceWith(h, item, TRUE)

\* a heappushpop that refuses an empty heap
heappushpop_empty(h, item) ==
    IF h = <<>> THEN Res(h, None, "IndexError")
    ELSE IF ~Orderable(At(h, 0), item) THEN Res(h, None, "TypeError")
    ELSE IF PyLt(At(h, 0), item)
         THEN Returning(_siftup(Put(h, 0, item), 0), At(h, 0))
         ELSE Res(h, item, "")

\* if heap and heap[0] < item: item, heap[0] = heap[0], item; siftup(heap, 0)
heappushpop(h, item) ==
    IF h = <<>> THEN Res(h, item, "")
    ELSE IF ~Orderable(At(h, 0), item) THEN Res(h, None, "TypeError")
    ELSE IF PyLt(At(h, 0), item)
         THEN Returning(_siftup(Put(h, 0, item), 0), At(h, 0))
         ELSE Res(h, item, "")

(* ---------------------- module-level functions ------------------------ *)
PyList(s) == <<"list", s>>
IsList(v) == v[1] = "list"

\* a push that appends and does not sift
heappush_max_nosift(h, item) == Res(Append(h, item), None, "")

heappush_max(h, item) ==
    Returning(_siftdown_max(Append(h, item), 0, Len(h)), None)

\* heappop_max(item): the builtin rejects an argument that is not a list
HeappopMaxOf(p, item) ==
    IF p.err # "" THEN p
    ELSE IF ~IsList(item) THEN Res(p.h, None, "TypeError")
    ELSE Res(p.h, PopWith(item[2], TRUE).ret, PopWith(item[2], TRUE).err)

\* C branch: push, then heappop_max is handed item instead of heap.
\* Python branch: swap with the root when the root is greater, sift.
heappushpop_max(h, item) ==
    IF C_LANGUAGE_HEAP THEN HeappopMaxOf(heappush_max(h, item), item)
    ELSE IF h = <<>> THEN Res(h, item, "")
    ELSE IF ~Orderable(item, At(h, 0)) THEN Res(h, None, "TypeError")
    ELSE IF PyLt(item, At(h, 0))
         THEN Returning(_siftup_max(Put(h, 0, item), 0), At(h, 0))
         ELSE Res(h, item, "")

(* ------------------------------ Heap ---------------------------------- *)
\* what callers store: pairs such as ('Adam', 'Smith') or (6, 4); here
\* (0, 0), (0, 1), (1, 0), (1, 1), (2, 0), ...
ItemOf(n) == PyTuple(<<PyInt(n \div 2), PyInt(n % 2)>>)
Items == {ItemOf(n) : n \in 0..MaxItem}
Keys == {"None", "second"}

SeqsUpTo(S, n) == UNION {[1..k -> S] : k \in 0..n}

\* key=lambda name: name[1]
KeyFn(item) == item[2][2]

_add_key(item) ==
    IF key = "None" THEN item ELSE PyTuple(<<KeyFn(item), item>>)

_del_key(item) ==
    IF key = "None" THEN item ELSE item[2][2]

Out(h, m, ret, err) == [h |-> h, max |-> m, ret |-> ret, err |-> err]
\* a heapq call on self._heap whose result is returned as it is (None from
\* a push) or through _del_key
Plain(r) == Out(r.h, max, None, r.err)
Unkeyed(r) == Out(r.h, max, IF r.err = "" THEN _del_key(r.ret) ELSE None, r.err)

\* one step of the generator: pop the copy in the orientation read now
IterPop(temp) == IF max THEN heappop_max(temp) ELSE heappop(temp)

\* the first n values _iter_with_key yields from temp_heap (fewer when it
\* runs out or a comparison raises)
RECURSIVE Drain(_, _, _)
DrainNext(r, n, out) ==
    IF r.err # "" THEN [out |-> out, err |-> r.err]
    ELSE Drain(r.h, n - 1, Append(out, r.ret))
Drain(temp, n, out) ==
    IF temp = <<>> \/ n = 0 THEN [out |-> out, err |-> ""]
    ELSE DrainNext(IterPop(temp), n, out)

_iter_with_key(h) == Drain(h, Len(h), <<>>)

Heapified(x) == IF max THEN heapify_max(x) ELSE heapify(x)

push(h, new_item) ==
    IF max THEN Plain(heappush_max(h, _add_key(new_item)))
    ELSE Plain(heappush(h, _add_key(new_item)))

\* a peek that answers None on an empty heap
peek_none(h) ==
    IF h = <<>> THEN Out(h, max, None, "")
    ELSE Out(h, max, _del_key(At(h, 0)), "")

peek(h) ==
    IF h = <<>> THEN Out(h, max, None, "IndexError")
    ELSE Out(h, max, _del_key(At(h, 0)), "")

\* new_items of pop(index), __delitem__ (set = FALSE: the entry at pos is
\* left out) and __setitem__ (set = TRUE: new_item takes its place); a pos
\* that no i of the enumeration equals changes nothing
Rebuilt(s, pos, new_item, set) ==
    IF pos < 0 \/ pos >= Len(s) THEN s
    ELSE IF set THEN Put(s, pos, new_item)
    ELSE SubSeq(s, 1, pos) \o SubSeq(s, pos + 2, Len(s))

\* heapify(new_items); self._heap = new_items: nothing is assigned when
\* heapify raises
Assigned(h, hp, ret) ==
    IF hp.err # "" THEN Out(h, max, None, hp.err)
    ELSE Out(hp.h, max, ret, "")

\* the loop over enumerate(self._iter_with_key()) and what follows it, d
\* being what the generator yielded
Rebuild(h, d, pos, new_item, set, ret) ==
    IF d.err # "" THEN Out(h, max, None, d.err)
    ELSE Assigned(h, Heapified(Rebuilt(d.out, pos, new_item, set)),
                  IF ret THEN _del_key(d.out[pos + 1]) ELSE None)

\* index after "if index < 0: index = len(self._heap) + index"
PopAt(h, index) ==
    IF index = 0 THEN Unkeyed(IterPop(h))
    ELSE IF index < 0 \/ index >= Len(h) THEN Out(h, max, None, "IndexError")
    ELSE Rebuild(h, _iter_with_key(h), index, None, FALSE, TRUE)

\* a pop that takes the last entry of the buffer, as list.pop() does
pop_last(h, index) ==
    IF h = <<>> THEN Out(h, max, None, "IndexError")
    ELSE Out(SubSeq(h, 1, Len(h) - 1), max, _del_key(h[Len(h)]), "")

pop(h, index) ==
    IF h = <<>> THEN Out(h, max, None, "IndexError")
    ELSE PopAt(h, IF index < 0 THEN Len(h) + index ELSE index)

pushpop(h, new_item) ==
    IF max THEN Unkeyed(heappushpop_max(h, _add_key(new_item)))
    ELSE Unkeyed(heappushpop(h, _add_key(new_item)))

replace(h, item) ==
    IF max THEN Unkeyed(heapreplace_max(h, _add_key(item)))
    ELSE Unkeyed(heapreplace(h, _add_key(item)))

\* the loop of __getitem__: the generator is resumed until i == pos, or to
\* its end when no i equals pos
GetFound(h, d, pos) ==
    IF d.err # "" THEN Out(h, max, None, d.err)
    ELSE IF pos >= 0 /\ pos < Len(h) THEN Out(h, max, _del_key(d.out[pos + 1]), "")
    ELSE Out(h, max, None, "IndexError")

GetAt(h, pos) ==
    GetFound(h, Drain(h, IF pos >= 0 /\ pos < Len(h) THEN pos + 1 ELSE Len(h),
                      <<>>), pos)

__getitem__(h, pos) ==
    IF pos = 0 THEN peek(h)
    ELSE GetAt(h, IF pos < 0 THEN Len(h) + pos ELSE pos)

SetAt(h, pos, new_item) ==
    IF pos > Len(h) THEN Out(h, max, None, "IndexError")
    ELSE Rebuild(h, _iter_with_key(h), pos, _add_key(new_item), TRUE, FALSE)

__setitem__(h, pos, new_item) ==
    SetAt(h, IF pos < 0 THEN Len(h) + pos ELSE pos, new_item)

DelAt(h, pos) ==
    IF pos > Len(h) THEN Out(h, max, None, "IndexError")
    ELSE Rebuild(h, _iter_with_key(h), pos, None, FALSE, FALSE)

__delitem__(h, pos) == DelAt(h, IF pos < 0 THEN Len(h) + pos ELSE pos)

clear(h) == Out(<<>>, max, None, "")

\* for o in others: self.push(self._add_key(o)); push adds the key again
RECURSIVE extend(_, _)
ExtendRest(r, others) == IF r.err # "" THEN r ELSE extend(r.h, others)
extend(h, others) ==
    IF others = <<>> THEN Out(h, max, None, "")
    ELSE ExtendRest(push(h, _add_key(Head(others))), Tail(others))

\* list.remove: drop the first entry equal to x
ListRemove(h, x) ==
    LET i == CHOOSE j \in 1..Len(h) :
                 h[j] = x /\ \A k \in 1..(j - 1) : h[k] # x
    IN SubSeq(h, 1, i - 1) \o SubSeq(h, i + 1, Len(h))

\* a remove that deletes the entry and does not heapify afterwards
remove_noheapify(h, item) ==
    IF \A j \in 1..Len(h) : h[j] # _add_key(item)
    THEN Out(h, max, None, "ValueError")
    ELSE Out(ListRemove(h, _add_key(item)), max, None, "")

remove(h, item) ==
    IF \A j \in 1..Len(h) : h[j] # _add_key(item)
    THEN Out(h, max, None, "ValueError")
    ELSE Plain(Heapified(ListRemove(h, _add_key(item))))

\* a reverse that flips the orientation and leaves the buffer as it is
reverse_noheapify(h) == Out(h, ~max, None, "")

\* self.max = not self.max, then heapify in the new orientation
Flipped(hp) == Out(hp.h, ~max, None, hp.err)
reverse(h) == IF ~max THEN Flipped(heapify_max(h)) ELSE Flipped(heapify(h))

\* Heap(items, max=..., key=...): copy, add keys, heapify
__init__(items) == Heapified([i \in 1..Len(items) |-> _add_key(items[i])])

(* ---------------------------- the machine ----------------------------- *)
\* the object and the record of the call after a method returned or raised
After(op, r) ==
    [heap |-> r.h, max |-> r.max, last |-> [op |-> op, err |-> r.err],
     completed |-> (completed /\ r.err = "")]

Indices == (0 - MaxLen - 1)..(MaxLen + 1)

\* no second object, no list shared, no Heap of the other module
NoObj == [kind |-> "none", heap |-> <<>>, max |-> FALSE, key |-> "None",
          orig |-> <<>>]
NoNeg == [heap |-> <<>>, max |-> FALSE, tup |-> FALSE, err |-> ""]

Init ==
    /\ max \in BOOLEAN
    /\ key \in Keys
    /\ C_LANGUAGE_HEAP \in BOOLEAN
    /\ \E items \in SeqsUpTo(Items, MaxLen) :
           \E r \in {__init__(items)} : r.err = "" /\ heap = r.h
    /\ last = [op |-> "__init__", err |-> ""]
    /\ completed = TRUE
    /\ iters = <<>>
    /\ other = NoObj /\ shared = FALSE /\ neg = NoNeg

Push ==
    \E x \in Items :
        \E s \in {After("push", push(heap, x))} :
            /\ completed /\ Len(s.heap) <= MaxLen
            /\ heap' = s.heap /\ max' = s.max
            /\ last' = s.last /\ completed' = s.completed
            /\ UNCHANGED <<key, C_LANGUAGE_HEAP, iters, aux>>

Pop ==
    \E i \in Indices :
        \E s \in {After("pop", pop(heap, i))} :
            /\ completed
            /\ heap' = s.heap /\ max' = s.max
            /\ last' = s.last /\ completed' = s.completed
            /\ UNCHANGED <<key, C_LANGUAGE_HEAP, iters, aux>>

Peek ==
    \E s \in {After("peek", peek(heap))} :
        /\ completed
        /\ heap' = s.heap /\ max' = s.max
        /\ last' = s.last /\ completed' = s.completed
        /\ UNCHANGED <<key, C_LANGUAGE_HEAP, iters, aux>>

Pushpop ==
    \E x \in Items :
        \E s \in {After("pushpop", pushpop(heap, x))} :
            /\ completed /\ Len(s.heap) <= MaxLen
            /\ heap' = s.heap /\ max' = s.max
            /\ last' = s.last /\ completed' = s.completed
            /\ UNCHANGED <<key, C_LANGUAGE_HEAP, iters, aux>>

Replace ==
    \E x \in Items :
        \E s \in {After("replace", replace(heap, x))} :
            /\ completed
            /\ heap' = s.heap /\ max' = s.max
            /\ last' = s.last /\ completed' = s.completed
            /\ UNCHANGED <<key, C_LANGUAGE_HEAP, iters, aux>>

GetItem ==
    \E i \in Indices :
        \E s \in {After("__getitem__", __getitem__(heap, i))} :
            /\ completed
            /\ heap' = s.heap /\ max' = s.max
            /\ last' = s.last /\ completed' = s.completed
            /\ UNCHANGED <<key, C_LANGUAGE_HEAP, iters, aux>>

SetItem ==
    \E i \in Indices, x \in Items :
        \E s \in {After("__setitem__", __setitem__(heap, i, x))} :
            /\ completed
            /\ heap' = s.heap /\ max' = s.max
            /\ last' = s.last /\ completed' = s.completed
            /\ UNCHANGED <<key, C_LANGUAGE_HEAP, iters, aux>>

DelItem ==
    \E i \in Indices :
        \E s \in {After("__delitem__", __delitem__(heap, i))} :
            /\ completed
            /\ heap' = s.heap /\ max' = s.max
            /\ last' = s.last /\ completed' = s.completed
            /\ UNCHANGED <<key, C_LANGUAGE_HEAP, iters, aux>>

Extend ==
    \E others \in SeqsUpTo(Items, MaxExt) :
        \E s \in {After("extend", extend(heap, others))} :
            /\ completed /\ Len(s.heap) <= MaxLen
            /\ heap' = s.heap /\ max' = s.max
            /\ last' = s.last /\ completed' = s.completed
            /\ UNCHANGED <<key, C_LANGUAGE_HEAP, iters, aux>>

Remove ==
    \E x \in Items :
        \E s \in {After("remove", remove(heap, x))} :
            /\ completed
            /\ heap' = s.heap /\ max' = s.max
            /\ last' = s.last /\ completed' = s.completed
            /\ UNCHANGED <<key, C_LANGUAGE_HEAP, iters, aux>>

Reverse ==
    \E s \in {After("reverse", reverse(heap))} :
        /\ completed
        /\ heap' = s.heap /\ max' = s.max
        /\ last' = s.last /\ completed' = s.completed
        /\ UNCHANGED <<key, C_LANGUAGE_HEAP, iters, aux>>

Clear ==
    \E s \in {After("clear", clear(heap))} :
        /\ completed
        /\ heap' = s.heap /\ max' = s.max
        /\ last' = s.last /\ completed' = s.completed
        /\ UNCHANGED <<key, C_LANGUAGE_HEAP, iters, aux>>

Next ==
    \/ Push
    \/ Pop
    \/ Peek
    \/ Pushpop
    \/ Replace
    \/ GetItem
    \/ SetItem
    \/ DelItem
    \/ Extend
    \/ Remove
    \/ Reverse
    \/ Clear

Spec == Init /\ [][Next]_vars

(* --------------------------- generators ------------------------------- *)
\* iter(h) returns a generator whose body has not started: temp_heap is
\* copied from self._heap by the first next()
NewGen == [started |-> FALSE, temp |-> <<>>, out |-> <<>>, done |-> FALSE,
           err |-> ""]

\* the generator after its pop r: the value is yielded through _del_key
Yielded(g, r) ==
    IF r.err # ""
    THEN [started |-> TRUE, temp |-> r.h, out |-> g.out, done |-> TRUE,
          err |-> r.err]
    ELSE [started |-> TRUE, temp |-> r.h, out |-> Append(g.out, _del_key(r.ret)),
          done |-> FALSE, err |-> ""]

\* next(g) with temp_heap = temp: StopIteration when it is empty
Popped(g, temp) ==
    IF temp = <<>>
    THEN [started |-> TRUE, temp |-> temp, out |-> g.out, done |-> TRUE,
          err |-> ""]
    ELSE Yielded(g, IterPop(temp))

\* next(g) with temp_heap = self._heap, the buffer itself instead of a copy
Resume_alias(h, g) ==
    [heap |-> Popped(g, h).temp, gen |-> Popped(g, h)]

\* next(g) on the heap whose buffer is h: the buffer and the generator
\* afterwards; temp_heap = self._heap[:] is a copy
Resume(h, g) ==
    [heap |-> h, gen |-> Popped(g, IF g.started THEN g.temp ELSE h)]

Iter ==
    /\ completed
    /\ Len(iters) < MaxIter
    /\ iters' = Append(iters, NewGen)
    /\ UNCHANGED <<heap, max, key, C_LANGUAGE_HEAP, last, completed, aux>>

IterNext ==
    \E k \in 1..Len(iters) :
        /\ completed
        /\ ~iters[k].done
        /\ \E s \in {Resume(heap, iters[k])} :
               /\ heap' = s.heap
               /\ iters' = [iters EXCEPT ![k] = s.gen]
               /\ completed' = (completed /\ s.gen.err = "")
        /\ last' = [op |-> "__iter__", err |-> ""]
        /\ UNCHANGED <<max, key, C_LANGUAGE_HEAP, aux>>

NextIter ==
    \/ Iter
    \/ IterNext

SpecIter == Init /\ [][NextIter]_vars

(* ------------------------- other Heap objects ------------------------- *)
\* A Heap object as a value: its buffer, orientation and key.  Self is the
\* object the machine follows; the operators below are the methods called
\* on any object c, which read c.max and c.key where the methods above
\* read self.max and self.key.
Obj(h, m, k) == [heap |-> h, max |-> m, key |-> k]
Self == Obj(heap, max, key)

\* c._del_key(item)
DelKeyOf(c, item) == IF c.key = "None" THEN item ELSE item[2][2]

\* c._iter_with_key(): pop a copy of the buffer until it is empty
RECURSIVE DrainOf(_, _, _)
DrainOfNext(c, r, out) ==
    IF r.err # "" THEN [out |-> out, err |-> r.err]
    ELSE DrainOf(c, r.h, Append(out, r.ret))
DrainOf(c, temp, out) ==
    IF temp = <<>> THEN [out |-> out, err |-> ""]
    ELSE DrainOfNext(c, PopWith(temp, c.max), out)

\* list(c): c.__iter__() yields c._del_key of every entry
UnkeyedOf(c, d) ==
    [out |-> [i \in 1..Len(d.out) |-> DelKeyOf(c, d.out[i])], err |-> d.err]
IterOf(c) == UnkeyedOf(c, DrainOf(c, c.heap, <<>>))

\* c.raw()
RawOf(c) == [i \in 1..Len(c.heap) |-> DelKeyOf(c, c.heap[i])]

\* c.reverse(): the object afterwards and the exception raised
ReversedInPlace(c, hp) == [obj |-> Obj(hp.h, ~c.max, c.key), err |-> hp.err]
ReverseOf(c) ==
    ReversedInPlace(c, HeapifyFrom(c.heap, (Len(c.heap) \div 2) - 1, ~c.max))

\* index(item, start, end): "for i, existing in self._iter_with_key()"
\* unpacks every entry the generator yields into i and existing; an int
\* cannot be unpacked (TypeError), a tuple of another length than two
\* neither (ValueError); "i >= start" raises TypeError unless i is an int.
\* The value returned is i.
IndexHit(i, start, end) ==
    IF ~IsInt(i) THEN [ret |-> None, err |-> "TypeError", hit |-> TRUE]
    ELSE [ret |-> i, err |-> "",
          hit |-> (i[2] >= start /\ (end = 0 - 1 \/ i[2] < end))]

RECURSIVE IndexFrom(_, _, _, _, _)
IndexNext(d, n, keyed_item, start, end, t) ==
    IF t.hit THEN [ret |-> t.ret, err |-> t.err]
    ELSE IndexFrom(d, n + 1, keyed_item, start, end)
IndexFrom(d, n, keyed_item, start, end) ==
    IF n > Len(d.out)
    THEN [ret |-> None, err |-> IF d.err # "" THEN d.err ELSE "ValueError"]
    ELSE IF ~IsTuple(d.out[n]) THEN [ret |-> None, err |-> "TypeError"]
    ELSE IF Len(d.out[n][2]) # 2 THEN [ret |-> None, err |-> "ValueError"]
    ELSE IF d.out[n][2][2] # keyed_item
         THEN IndexFrom(d, n + 1, keyed_item, start, end)
    ELSE IndexNext(d, n, keyed_item, start, end,
                   IndexHit(d.out[n][2][1], start, end))

Found(h, t) == Out(h, max, t.ret, t.err)
index(h, item, start, end) ==
    Found(h, IndexFrom(_iter_with_key(h), 1, _add_key(item), start, end))

\* Heap(items, max=m, key=k): the new object, or the exception heapify
\* raised; items is copied, keyed and heapified
AddKeyOf(k, item) == IF k = "None" THEN item ELSE PyTuple(<<KeyFn(item), item>>)
Built(m, k, hp) == [obj |-> Obj(hp.h, m, k), err |-> hp.err]
NewHeap(items, m, k) ==
    Built(m, k, HeapifyFrom([i \in 1..Len(items) |-> AddKeyOf(k, items[i])],
                            (Len(items) \div 2) - 1, m))

\* reversed(c): return Heap(self.raw(), max=not self.max); no key is passed
__reversed__(c) == NewHeap(RawOf(c), ~c.max, "None")

(* --------------------------- list objects ------------------------------ *)
\* A list expression of a method is its value and whether it is the list
\* object the method started from (the caller's argument in __init__,
\* self._heap in copy) or a new one.
Same(val) == [val |-> val, same |-> TRUE]
Fresh(val) == [val |-> val, same |-> FALSE]

\* a slice that hands back the list itself
Sliced_alias(l) == l

\* l[:] is a new list
Sliced(l) == Fresh(l.val)

\* __init__: "elif not items: items = []; else: items = items[:]"
Taken(l) == IF l.val = <<>> THEN Fresh(<<>>) ELSE Sliced(l)
\* "if self.key is not None: items = [self._add_key(i) for i in items]"
WithKeys(l) ==
    IF key = "None" THEN l
    ELSE Fresh([i \in 1..Len(l.val) |-> _add_key(l.val[i])])
\* heapify(items); self._heap = items: the buffer, the caller's list
\* afterwards and whether they are one object
Owned(l, items, hp) ==
    [h |-> hp.h, err |-> hp.err, shared |-> l.same,
     input |-> IF l.same THEN hp.h ELSE items]
Construct(items) ==
    Owned(WithKeys(Taken(Same(items))), items,
          Heapified(WithKeys(Taken(Same(items))).val))

\* c.copy(): Heap(self._heap[:], max=self.max, key=self.key,
\* _replace_heap=True): self._heap = items, the argument itself
Copied(c, l) == [obj |-> Obj(l.val, c.max, c.key), shared |-> l.same]
copy(c) == Copied(c, Sliced(Same(c.heap)))

\* the list reversed(c) ends with: raw() is a new list, __init__ takes it
ReversedList(c) == IF RawOf(c) = <<>> THEN Fresh(<<>>) ELSE Sliced(Fresh(RawOf(c)))

\* the methods that change the list self._heap in place; pop(index) with
\* another index, __setitem__, __delitem__ and clear assign a new list
InPlace(op, i) ==
    \/ op \in {"push", "pushpop", "replace", "extend", "remove", "reverse"}
    \/ op = "pop" /\ (i = 0 \/ i = 0 - Len(heap))

\* the call op on self with the arguments x and i
Apply(op, x, i) ==
    CASE op = "push" -> push(heap, x)
      [] op = "pop" -> pop(heap, i)
      [] op = "pushpop" -> pushpop(heap, x)
      [] op = "replace" -> replace(heap, x)
      [] op = "__setitem__" -> __setitem__(heap, i, x)
      [] op = "__delitem__" -> __delitem__(heap, i)
      [] op = "extend" -> extend(heap, <<x>>)
      [] op = "remove" -> remove(heap, x)
      [] op = "reverse" -> reverse(heap)
      [] op = "clear" -> clear(heap)

MutatingOps ==
    {"push", "pop", "pushpop", "replace", "__setitem__", "__delitem__",
     "extend", "remove", "reverse", "clear"}

\* Heap(items, max=..., key=...) with the caller keeping its list
InitOwn ==
    /\ max \in BOOLEAN
    /\ key \in Keys
    /\ C_LANGUAGE_HEAP \in BOOLEAN
    /\ \E items \in SeqsUpTo(Items, MaxOwn) :
           \E r \in {Construct(items)} :
               /\ r.err = ""
               /\ heap = r.h
               /\ shared = r.shared
               /\ other = [kind |-> "list", heap |-> r.input, max |-> FALSE,
                           key |-> "None", orig |-> items]
    /\ last = [op |-> "__init__", err |-> ""]
    /\ completed = TRUE
    /\ iters = <<>>
    /\ neg = NoNeg

\* the arguments a call of op takes: an item, an index, both or none
OwnIndices == (0 - MaxOwn - 1)..(MaxOwn + 1)
ItemsOf(op) ==
    IF op \in {"pop", "__delitem__", "reverse", "clear"} THEN {ItemOf(0)}
    ELSE Items
IndicesOf(op) ==
    IF op \in {"pop", "__setitem__", "__delitem__"} THEN OwnIndices ELSE {0}

\* a mutating method of self; a list shared with other changes there too
Mutate ==
    \E op \in MutatingOps : \E x \in ItemsOf(op), i \in IndicesOf(op) :
        \E s \in {After("mutate", Apply(op, x, i))} :
            /\ completed /\ Len(s.heap) <= MaxOwn
            /\ heap' = s.heap /\ max' = s.max
            /\ last' = s.last /\ completed' = s.completed
            /\ other' = IF shared /\ InPlace(op, i)
                        THEN [other EXCEPT !.heap = s.heap] ELSE other
            /\ shared' = (shared /\ (InPlace(op, i) \/ s.last.err # ""))
            /\ UNCHANGED <<key, C_LANGUAGE_HEAP, iters, neg>>

\* other = self.copy()
Copy ==
    \E r \in {copy(Self)} :
        /\ completed /\ other.kind = "list"
        /\ other' = [kind |-> "Heap", heap |-> r.obj.heap, max |-> r.obj.max,
                     key |-> r.obj.key, orig |-> <<>>]
        /\ shared' = r.shared
        /\ last' = [op |-> "copy", err |-> ""]
        /\ UNCHANGED <<heap, max, key, C_LANGUAGE_HEAP, completed, iters, neg>>

\* other = reversed(self)
Reversed ==
    \E r \in {__reversed__(Self)} :
        /\ completed /\ other.kind = "list" /\ r.err = ""
        /\ other' = [kind |-> "Heap", heap |-> r.obj.heap, max |-> r.obj.max,
                     key |-> r.obj.key, orig |-> <<>>]
        /\ shared' = ReversedList(Self).same
        /\ last' = [op |-> "__reversed__", err |-> ""]
        /\ UNCHANGED <<heap, max, key, C_LANGUAGE_HEAP, completed, iters, neg>>

\* the caller turns to the other Heap: from now on self is that object
Switch ==
    /\ completed /\ other.kind = "Heap"
    /\ heap' = other.heap /\ max' = other.max /\ key' = other.key
    /\ other' = [other EXCEPT !.heap = heap, !.max = max, !.key = key]
    /\ last' = [op |-> "switch", err |-> ""]
    /\ UNCHANGED <<C_LANGUAGE_HEAP, completed, iters, shared, neg>>

NextOwn == Mutate \/ Copy \/ Reversed \/ Switch
SpecOwn == InitOwn /\ [][NextOwn]_vars

(* ------------------- heap_class.no_private_imports -------------------- *)
(* The Heap of src/heap_class/no_private_imports.py keeps a min-heap and   *)
(* stores the negation of every item when max is set.  An object n is      *)
(* [heap, max, tup, err]: self._heap, self.max, self.tup and the exception *)
(* the last call on it raised.  Callers store ints, or tuples of ints,     *)
(* and tup, where it is passed, says which.                                *)
Ints == {PyInt(n) : n \in 0..MaxItem}
Stored(tup) == IF tup THEN Items ELSE Ints

NegObj(h, m, tup, err) == [heap |-> h, max |-> m, tup |-> tup, err |-> err]

\* -item, or the tuple of the negated elements
Negated(j) == IF IsInt(j) THEN PyInt(0 - j[2]) ELSE j
_maxify(n, item) ==
    IF ~n.max THEN item
    ELSE IF ~n.tup THEN PyInt(0 - item[2])
    ELSE PyTuple([j \in 1..Len(item[2]) |-> Negated(item[2][j])])

Maxified(n, s) == [i \in 1..Len(s) |-> _maxify(n, s[i])]

\* Heap(items, max=m, tup=tup), tup being "None", "True" or "False":
\* "tup = isinstance(items[0], tuple)" raises IndexError for an empty list
\* when tup is not given
NegHeapified(m, tup, hp) == NegObj(hp.h, m, tup, hp.err)
Neg__init__(items, m, tup) ==
    IF tup = "None" /\ items = <<>> THEN NegObj(<<>>, m, FALSE, "IndexError")
    ELSE IF tup = "None"
         THEN NegHeapified(m, IsTuple(items[1]),
                  heapify(Maxified(NegObj(<<>>, m, IsTuple(items[1]), ""),
                                   items)))
         ELSE NegHeapified(m, tup = "True",
                  heapify(Maxified(NegObj(<<>>, m, tup = "True", ""), items)))

\* the outcome of a call on n: the object afterwards and the value returned
NegOut(n, r, ret) ==
    [obj |-> NegObj(r.h, n.max, n.tup, r.err),
     ret |-> IF r.err = "" THEN ret ELSE None]

Neg_push(n, new_item) ==
    NegOut(n, heappush(n.heap, _maxify(n, new_item)), None)

\* __iter__: temp_heap = self._heap[:]; yield self._maxify(heappop(temp_heap))
RECURSIVE NegDrain(_, _, _)
NegDrainNext(n, r, out) ==
    IF r.err # "" THEN [out |-> out, err |-> r.err]
    ELSE NegDrain(n, r.h, Append(out, _maxify(n, r.ret)))
NegDrain(n, temp, out) ==
    IF temp = <<>> THEN [out |-> out, err |-> ""]
    ELSE NegDrainNext(n, heappop(temp), out)
Neg__iter__(n) == NegDrain(n, n.heap, <<>>)

Neg_raw(n) == Maxified(n, n.heap)

Neg_peek(n) == IF n.heap = <<>> THEN None ELSE _maxify(n, At(n.heap, 0))

\* pop(index), ix below: the root through heappop, another position by draining
\* the iteration, storing every other item again and heapifying
NegPopped(n, r) == NegOut(n, r, IF r.err = "" THEN _maxify(n, r.ret) ELSE None)
NegRebuilt(n, d, ix) ==
    NegOut(n, heapify(Maxified(n, SubSeq(d.out, 1, ix)
                                      \o SubSeq(d.out, ix + 2, Len(d.out)))),
           d.out[ix + 1])
NegPopAt(n, ix) ==
    IF ix = 0 THEN NegPopped(n, heappop(n.heap))
    ELSE IF ix < 0 \/ ix >= Len(n.heap)
         THEN NegOut(n, Res(n.heap, None, "IndexError"), None)
    ELSE NegRebuilt(n, Neg__iter__(n), ix)
Neg_pop(n, ix) ==
    IF n.heap = <<>> THEN NegOut(n, Res(n.heap, None, "IndexError"), None)
    ELSE NegPopAt(n, IF ix < 0 THEN Len(n.heap) + ix ELSE ix)

\* __getitem__: position 0 is the root, others are found by iterating
NegGetAt(n, d, pos) ==
    IF pos < 0 \/ pos >= Len(d.out)
    THEN NegOut(n, Res(n.heap, None, "IndexError"), None)
    ELSE NegOut(n, Res(n.heap, None, ""), d.out[pos + 1])
Neg__getitem__(n, pos) ==
    IF pos = 0 /\ n.heap = <<>>
    THEN NegOut(n, Res(n.heap, None, "IndexError"), None)
    ELSE IF pos = 0
         THEN NegOut(n, Res(n.heap, None, ""), _maxify(n, At(n.heap, 0)))
    ELSE NegGetAt(n, Neg__iter__(n), IF pos < 0 THEN Len(n.heap) + pos ELSE pos)

\* return self._maxify(heappushpop(self._heap, self._maxify(new_item)))
NegMaxifiedRet(n, r) ==
    NegOut(n, r, IF r.err = "" THEN _maxify(n, r.ret) ELSE None)
Neg_pushpop(n, new_item) ==
    NegMaxifiedRet(n, heappushpop(n.heap, _maxify(n, new_item)))

\* return heapreplace(self._heap, self._maxify(item)): the value is
\* returned as it is stored
NegStoredRet(n, r) == NegOut(n, r, r.ret)
Neg_replace(n, item) == NegStoredRet(n, heapreplace(n.heap, _maxify(n, item)))

\* "item in self._heap" and self._heap.count(item)
Neg__contains__(n, item) == \E i \in 1..Len(n.heap) : n.heap[i] = item
Neg_count(n, item) == Cardinality({i \in 1..Len(n.heap) : n.heap[i] = item})

\* self.max = not self.max; self._heap = [self._maxify(i) for i in
\* self._heap]; heapify(self._heap)
NegFlipped(m, hp) == NegObj(hp.h, m.max, m.tup, hp.err)
NegReheaped(m, h) == NegFlipped(m, heapify(Maxified(m, h)))
Neg_reverse(n) == NegReheaped(NegObj(n.heap, ~n.max, n.tup, ""), n.heap)

\* Heap(items, max=max) of both modules from one input, the second with
\* tup left out or saying what the items are
InitBoth ==
    /\ max \in BOOLEAN
    /\ key = "None"
    /\ C_LANGUAGE_HEAP \in BOOLEAN
    /\ \E tuples \in BOOLEAN :
           \E items \in SeqsUpTo(Stored(tuples), MaxLen),
              tup \in {"None", IF tuples THEN "True" ELSE "False"} :
               \E r \in {__init__(items)}, n \in {Neg__init__(items, max, tup)} :
                   /\ r.err = ""
                   /\ heap = r.h
                   /\ neg = n
                   /\ completed = (n.err = "")
    /\ last = [op |-> "__init__", err |-> ""]
    /\ iters = <<>>
    /\ other = NoObj /\ shared = FALSE

\* the same call on both objects
BothPush ==
    \E x \in Stored(neg.tup) :
        \E s \in {After("push", push(heap, x))}, n \in {Neg_push(neg, x).obj} :
            /\ completed /\ Len(s.heap) <= MaxLen
            /\ heap' = s.heap /\ max' = s.max /\ last' = s.last
            /\ neg' = n
            /\ completed' = (s.completed /\ n.err = "")
            /\ UNCHANGED <<key, C_LANGUAGE_HEAP, iters, other, shared>>

BothPop ==
    \E s \in {After("pop", pop(heap, 0))}, n \in {Neg_pop(neg, 0).obj} :
        /\ completed
        /\ heap' = s.heap /\ max' = s.max /\ last' = s.last
        /\ neg' = n
        /\ completed' = (s.completed /\ n.err = "")
        /\ UNCHANGED <<key, C_LANGUAGE_HEAP, iters, other, shared>>

BothReverse ==
    \E s \in {After("reverse", reverse(heap))}, n \in {Neg_reverse(neg)} :
        /\ completed
        /\ heap' = s.heap /\ max' = s.max /\ last' = s.last
        /\ neg' = n
        /\ completed' = (s.completed /\ n.err = "")
        /\ UNCHANGED <<key, C_LANGUAGE_HEAP, iters, other, shared>>

NextBoth == BothPush \/ BothPop \/ BothReverse
SpecBoth == InitBoth /\ [][NextBoth]_vars

(* ------------------ iterating a heap that is mutated ------------------ *)
(* One generator of self and, between its steps, mutating calls on self.   *)
(* other keeps the object as it was at the first next(), when the body of  *)
(* _iter_with_key copied the buffer; every later step pops that copy in    *)
(* the orientation self.max has then.                                      *)
MixItems == {ItemOf(n) : n \in 0..MaxMixItem}

InitMix ==
    /\ max \in BOOLEAN
    /\ key \in Keys
    /\ C_LANGUAGE_HEAP \in BOOLEAN
    /\ \E items \in SeqsUpTo(MixItems, MaxMix) :
           \E r \in {__init__(items)} : r.err = "" /\ heap = r.h
    /\ last = [op |-> "__init__", err |-> ""]
    /\ completed = TRUE
    /\ iters = <<>>
    /\ other = NoObj /\ shared = FALSE /\ neg = NoNeg

\* g = iter(self)
Begin ==
    /\ completed
    /\ iters = <<>>
    /\ iters' = <<NewGen>>
    /\ last' = [op |-> "__iter__", err |-> ""]
    /\ UNCHANGED <<heap, max, key, C_LANGUAGE_HEAP, completed, aux>>

\* next(g)
Step ==
    \E k \in 1..Len(iters) : \E s \in {Resume(heap, iters[k])} :
        /\ completed
        /\ ~iters[k].done
        /\ heap' = s.heap
        /\ iters' = [iters EXCEPT ![k] = s.gen]
        /\ completed' = (s.gen.err = "")
        /\ other' = IF iters[k].started THEN other
                    ELSE [kind |-> "snapshot", heap |-> heap, max |-> max,
                          key |-> key, orig |-> <<>>]
        /\ last' = [op |-> "next", err |-> s.gen.err]
        /\ UNCHANGED <<max, key, C_LANGUAGE_HEAP, shared, neg>>

\* push, pop, replace, remove, clear or reverse on self while the generator
\* is suspended at a yield of its loop
Disturb ==
    \E op \in {"push", "pop", "replace", "remove", "clear", "reverse"} :
        \E x \in MixItems : \E s \in {After(op, Apply(op, x, 0))} :
            /\ completed
            /\ iters # <<>> /\ iters[1].started /\ ~iters[1].done
            /\ Len(s.heap) <= MaxMix
            /\ heap' = s.heap /\ max' = s.max
            /\ last' = s.last /\ completed' = s.completed
            /\ UNCHANGED <<key, C_LANGUAGE_HEAP, iters, aux>>

NextMix == Begin \/ Step \/ Disturb
SpecMix == InitMix /\ [][NextMix]_vars

(* ------------------------------ claims -------------------------------- *)
PyLe(a, b) == Orderable(a, b) /\ (a = b \/ PyLt(a, b))

\* the parent of every non-root position is <= (ascending) or >=
\* (descending) the entry at that position
HeapInvariant(h, m) ==
    \A i \in 1..(Len(h) - 1) :
        IF m THEN PyLe(At(h, i), At(h, (i - 1) \div 2))
        ELSE PyLe(At(h, (i - 1) \div 2), At(h, i))

\* the entries are totally ordered: no comparison of two of them raises
AllOrderable(h) == \A i, j \in 1..Len(h) : Orderable(h[i], h[j])

Mutators ==
    {"push", "pop", "replace", "pushpop", "extend", "remove", "reverse",
     "__setitem__", "__delitem__"}

\* C1: after construction and after any sequence of completed push, pop,
\* replace, pushpop, extend, remove, reverse, pop(index), index-set and
\* index-delete calls, the buffer satisfies the heap invariant of the
\* current orientation.
C1_HeapInvariant == completed => HeapInvariant(heap, max)

C1_Witness ==
    /\ completed
    /\ last.op \in Mutators
    /\ Len(heap) >= 3
    /\ heap[2] # heap[3]
    /\ HeapInvariant(heap, max)

\* what the caller sees of the contents: raw() and list(h)
raw(h) == [i \in 1..Len(h) |-> _del_key(h[i])]
Listed(d) ==
    [out |-> [i \in 1..Len(d.out) |-> _del_key(d.out[i])], err |-> d.err]
list(h) == Listed(_iter_with_key(h))

Count(s, x) == Cardinality({i \in 1..Len(s) : s[i] = x})
Elems(s) == {s[i] : i \in 1..Len(s)}
\* s and t hold the same values the same number of times
SameItems(s, t) ==
    /\ Len(s) = Len(t)
    /\ \A x \in Elems(s) \cup Elems(t) : Count(s, x) = Count(t, x)

\* the effective ordering of two stored items: by key first, ties between
\* equal keys broken by the item itself; descending when m
ItemLe(a, b, m) ==
    IF m THEN PyLe(_add_key(b), _add_key(a))
    ELSE PyLe(_add_key(a), _add_key(b))

\* t is the reference sort of s
SortedOf(t, s, m) ==
    /\ SameItems(t, s)
    /\ \A i \in 1..(Len(t) - 1) : ItemLe(t[i], t[i + 1], m)

\* C2: for totally ordered contents, in both orientations and with or
\* without a key function, iterating yields exactly the current contents
\* in the order of a reference sort: ascending or descending by key, ties
\* between equal keys broken by the item.
C2_IterationSorted ==
    AllOrderable(heap) =>
        /\ list(heap).err = ""
        /\ SortedOf(list(heap).out, raw(heap), max)

C2_Witness ==
    /\ completed
    /\ last.op \in {"push", "pop"}
    /\ key = "second"
    /\ Len(heap) >= 3
    /\ list(heap).out # raw(heap)
    /\ \E i \in 1..2 :
           /\ KeyFn(list(heap).out[i]) = KeyFn(list(heap).out[i + 1])
           /\ list(heap).out[i] # list(heap).out[i + 1]

\* x is the extreme of the items s
Extreme(x, s, m) == x \in Elems(s) /\ \A y \in Elems(s) : ItemLe(x, y, m)

\* C3: on a non-empty heap of totally ordered contents pop() returns the
\* extreme element (minimum ascending, maximum descending), removes one
\* occurrence of it and keeps every other element; peek() returns what the
\* next pop() would return and changes nothing.
C3_PopExtreme ==
    AllOrderable(heap) /\ heap # <<>> =>
        /\ pop(heap, 0).err = ""
        /\ Extreme(pop(heap, 0).ret, raw(heap), max)
        /\ SameItems(<<pop(heap, 0).ret>> \o raw(pop(heap, 0).h), raw(heap))
        /\ pop(heap, 0).max = max
        /\ peek(heap).err = ""
        /\ peek(heap).ret = pop(heap, 0).ret
        /\ peek(heap).h = heap
        /\ peek(heap).max = max

C3_Witness ==
    /\ last.op = "pop"
    /\ last.err = ""
    /\ Len(heap) >= 2
    /\ heap[1] # heap[2]
    /\ AllOrderable(heap)

PushThenPop(h, x) == pop(push(h, x).h, 0)

\* C4: in every state and for every x, pushpop(x) returns what push(x)
\* followed by pop() returns and leaves the same contents; on an empty
\* heap, or when x would itself be the next root, it returns x and the
\* contents are unchanged.
C4_PushpopIsPushThenPop ==
    \A x \in Items :
        /\ pushpop(heap, x).err = ""
        /\ pushpop(heap, x).ret = PushThenPop(heap, x).ret
        /\ SameItems(raw(pushpop(heap, x).h), raw(PushThenPop(heap, x).h))
        /\ (heap = <<>> \/ Extreme(x, <<x>> \o raw(heap), max)
               => /\ pushpop(heap, x).ret = x
                  /\ pushpop(heap, x).h = heap)

\* C5: on a non-empty heap replace(x) returns the root current before the
\* call (what peek() returned), the contents become the old ones minus
\* that root plus x, the length is unchanged, and the value returned is a
\* stored item, not a (key, item) wrapper.
C5_ReplaceReturnsRoot ==
    heap # <<>> =>
        \A x \in Items :
            /\ replace(heap, x).err = ""
            /\ replace(heap, x).ret = peek(heap).ret
            /\ SameItems(<<replace(heap, x).ret>> \o raw(replace(heap, x).h),
                         <<x>> \o raw(heap))
            /\ Len(replace(heap, x).h) = Len(heap)
            /\ replace(heap, x).ret \in Items

\* C6: on an empty heap, in both orientations and with or without a key,
\* pop(), peek() and replace(x) raise IndexError and the heap is still
\* empty.
C6_EmptyRaises ==
    heap = <<>> =>
        /\ pop(heap, 0).err = "IndexError"
        /\ pop(heap, 0).h = <<>>
        /\ peek(heap).err = "IndexError"
        /\ peek(heap).h = <<>>
        /\ \A x \in Items :
               /\ replace(heap, x).err = "IndexError"
               /\ replace(heap, x).h = <<>>

C6_Witness ==
    /\ heap = <<>>
    /\ last.op \in {"pop", "peek", "replace"}
    /\ last.err = "IndexError"

\* C7: a push, pushpop or replace that raises leaves the length and the
\* contents of the heap as they were before the call.
C7_FailureKeepsState ==
    [][last'.op \in {"push", "pushpop", "replace"} /\ last'.err # ""
           => SameItems(raw(heap'), raw(heap))]_vars

OutOfRange(h) == {i \in Indices : i < 0 - Len(h) \/ i >= Len(h)}

\* C8: h[i], h[i] = x, del h[i] and pop(i) with i outside [-n, n) raise
\* IndexError and leave the contents unchanged.
C8_OutOfRangeRaises ==
    \A i \in OutOfRange(heap) :
        /\ __getitem__(heap, i).err = "IndexError"
        /\ pop(heap, i).err = "IndexError"
        /\ pop(heap, i).h = heap
        /\ __delitem__(heap, i).err = "IndexError"
        /\ SameItems(raw(__delitem__(heap, i).h), raw(heap))
        /\ \A x \in Items :
               /\ __setitem__(heap, i, x).err = "IndexError"
               /\ SameItems(raw(__setitem__(heap, i, x).h), raw(heap))

InRange(h) == {i \in Indices : i >= 0 - Len(h) /\ i < Len(h)}
\* the place of index i in the iteration sequence, counted from 1
PosOf(h, i) == IF i < 0 THEN Len(h) + i + 1 ELSE i + 1
Without(s, p) == SubSeq(s, 1, p - 1) \o SubSeq(s, p + 1, Len(s))

\* C9: with s the iteration sequence and i a valid index, h[i] and pop(i)
\* return s[i], pop(i) and del h[i] remove exactly s[i], and h[i] = x
\* keeps the length and replaces s[i] by x in the contents.
C9_IndexIsSortedPosition ==
    list(heap).err = "" =>
        \A i \in InRange(heap) :
            /\ __getitem__(heap, i).err = ""
            /\ __getitem__(heap, i).ret = list(heap).out[PosOf(heap, i)]
            /\ pop(heap, i).err = ""
            /\ pop(heap, i).ret = list(heap).out[PosOf(heap, i)]
            /\ SameItems(raw(pop(heap, i).h),
                         Without(list(heap).out, PosOf(heap, i)))
            /\ __delitem__(heap, i).err = ""
            /\ SameItems(raw(__delitem__(heap, i).h),
                         Without(list(heap).out, PosOf(heap, i)))
            /\ \A x \in Items :
                   /\ __setitem__(heap, i, x).err = ""
                   /\ Len(__setitem__(heap, i, x).h) = Len(heap)
                   /\ SameItems(raw(__setitem__(heap, i, x).h),
                                <<x>> \o Without(list(heap).out,
                                                 PosOf(heap, i)))

IsPrefix(s, t) == Len(s) <= Len(t) /\ s = SubSeq(t, 1, Len(s))

\* the generators agree: what one has yielded so far is a prefix of what
\* any other has, and one that is exhausted has yielded every entry
Agree(gs, h) ==
    /\ \A j, k \in 1..Len(gs) :
           IsPrefix(gs[j].out, gs[k].out) \/ IsPrefix(gs[k].out, gs[j].out)
    /\ \A k \in 1..Len(gs) :
           /\ gs[k].err = ""
           /\ gs[k].done => SameItems(gs[k].out, raw(h))

\* C10: a step of any iterator, in any interleaving, leaves the buffer,
\* the orientation and the length unchanged, and all iterations over the
\* unchanged heap yield the same sequence.
C10_IterationReadOnly ==
    [][iters' # iters
           => heap' = heap /\ max' = max /\ key' = key /\ Agree(iters', heap)]_vars

C10_Witness ==
    /\ Len(iters) = 2
    /\ Len(heap) >= 3
    /\ iters[2].done
    /\ ~iters[1].done
    /\ Len(iters[1].out) = 1
    /\ iters[2].out # raw(heap)

\* an object read through the methods of any object is read as through
\* the methods of self
SelfAgrees ==
    /\ IterOf(Self) = list(heap)
    /\ RawOf(Self) = raw(heap)
    /\ ReverseOf(Self).obj = Obj(reverse(heap).h, reverse(heap).max, key)
    /\ ReverseOf(Self).err = reverse(heap).err

Rev(s) == [i \in 1..Len(s) |-> s[Len(s) + 1 - i]]

\* C12: reverse() on totally ordered contents flips the orientation in
\* place and keeps the items, the iteration sequence afterwards is the
\* previous one reversed, and a second reverse() restores the orientation
\* and the iteration sequence, with or without a key function.
C12_ReverseReversesIteration ==
    [][last'.op = "reverse" /\ AllOrderable(heap)
           => /\ last'.err = ""
              /\ max' = ~max
              /\ SameItems(raw(heap'), raw(heap))
              /\ \A c \in {Obj(heap', max', key')} :
                     /\ IterOf(c).out = Rev(list(heap).out)
                     /\ ReverseOf(c).err = ""
                     /\ ReverseOf(c).obj.max = max
                     /\ IterOf(ReverseOf(c).obj).out = list(heap).out]_vars

C12_Witness ==
    /\ last.op = "reverse"
    /\ completed
    /\ key = "second"
    /\ Len(heap) >= 3
    /\ list(heap).out # raw(heap)
    /\ \E i \in 1..2 :
           /\ KeyFn(list(heap).out[i]) = KeyFn(list(heap).out[i + 1])
           /\ list(heap).out[i] # list(heap).out[i + 1]

Starts == 0..1
Ends == (0 - 1)..MaxLen
\* the positions of the iteration sequence s, counted from 0, where x is
\* and that lie in start <= p and, when end is given, p < end
Places(s, x, start, end) ==
    {p \in 0..(Len(s) - 1) :
        s[p + 1] = x /\ p >= start /\ (end = 0 - 1 \/ p < end)}
FirstOf(ps) == CHOOSE p \in ps : \A q \in ps : p <= q

\* C13: index(item, start, end) returns the first position of item in the
\* iteration sequence among the positions >= start and, when end is given,
\* < end, and raises ValueError when there is no such position.
C13_IndexIsFirstPosition ==
    list(heap).err = "" =>
        \A x \in Items, start \in Starts, end \in Ends :
            IF Places(list(heap).out, x, start, end) = {}
            THEN index(heap, x, start, end).err = "ValueError"
            ELSE /\ index(heap, x, start, end).err = ""
                 /\ index(heap, x, start, end).ret
                        = PyInt(FirstOf(Places(list(heap).out, x, start, end)))

\* one push per item of items, in order, starting from the buffer h
RECURSIVE PushAll(_, _)
PushAll(h, items) ==
    IF items = <<>> THEN h ELSE PushAll(push(h, Head(items)).h, Tail(items))

\* C14: with r = raw(), clear() and then extend(r) give a heap whose
\* iteration sequence is the one of the original, and extend(items) leaves
\* what one push per item leaves.
C14_ExtendRawRoundTrip ==
    AllOrderable(heap) =>
        /\ extend(clear(heap).h, raw(heap)).err = ""
        /\ list(extend(clear(heap).h, raw(heap)).h) = list(heap)
        /\ \A others \in SeqsUpTo(Items, MaxExt) :
               extend(heap, others).h = PushAll(heap, others)

\* a value a call returned is an item a caller stored
IsItem(r) == r.err = "" => r.ret \in Items

\* C15: on a heap with a key function every value handed to the caller by
\* raw(), iteration, peek, pop, replace, pushpop and index access is a
\* stored item, never a (key, item) pair.
C15_NoWrapperEscapes ==
    key = "second" =>
        /\ \A i \in 1..Len(heap) : raw(heap)[i] \in Items
        /\ \A i \in 1..Len(list(heap).out) : list(heap).out[i] \in Items
        /\ IsItem(peek(heap))
        /\ \A i \in Indices : IsItem(pop(heap, i)) /\ IsItem(__getitem__(heap, i))
        /\ \A x \in Items : IsItem(replace(heap, x)) /\ IsItem(pushpop(heap, x))

Has(h, x) == \E j \in 1..Len(h) : raw(h)[j] = x

\* C16: remove(item) on a heap of totally ordered contents that holds item
\* removes one entry equal to item, keeps every other entry and leaves
\* the heap invariant in place; when no entry equals item it raises
\* ValueError and the heap is unchanged.
C16_RemoveOne ==
    AllOrderable(heap) =>
        \A x \in Items :
            IF Has(heap, x)
            THEN /\ remove(heap, x).err = ""
                 /\ Len(remove(heap, x).h) = Len(heap) - 1
                 /\ SameItems(<<x>> \o raw(remove(heap, x).h), raw(heap))
                 /\ HeapInvariant(remove(heap, x).h, max)
                 /\ remove(heap, x).max = max
            ELSE /\ remove(heap, x).err = "ValueError"
                 /\ remove(heap, x).h = heap
                 /\ remove(heap, x).max = max

C16_Witness ==
    /\ last.op = "remove"
    /\ last.err = ""
    /\ Len(heap) >= 2
    /\ \E x \in Items : Has(heap, x)
    /\ \E x \in Items : ~Has(heap, x)

\* C18 as stated: pushpop(x) on an empty heap raises IndexError, as pop,
\* peek and replace do.
C18_PushpopEmptyRaises ==
    heap = <<>> => \A x \in Items : pushpop(heap, x).err = "IndexError"

\* C18: pushpop(x) on an empty heap never raises IndexError: it returns x
\* and the heap is still empty; on a descending heap with the C heapq it
\* raises TypeError with x stored, the call heappop_max(item) of
\* heappushpop_max.
C18_PushpopEmptyReturnsItem ==
    heap = <<>> =>
        \A x \in Items :
            IF max /\ C_LANGUAGE_HEAP
            THEN /\ pushpop(heap, x).err = "TypeError"
                 /\ pushpop(heap, x).h = <<_add_key(x)>>
            ELSE /\ pushpop(heap, x).err = ""
                 /\ pushpop(heap, x).ret = x
                 /\ pushpop(heap, x).h = <<>>

C18_Witness ==
    /\ heap = <<>>
    /\ last.op = "pushpop"
    /\ last.err = ""
    /\ key = "second"

\* C11: reversed(h) on a heap of totally ordered contents, with or
\* without a key function, is a heap of the opposite orientation that
\* holds the items of h and whose iteration sequence is the one of h
\* reversed.
C11_ReversedReversesIteration ==
    AllOrderable(heap) =>
        /\ __reversed__(Self).err = ""
        /\ __reversed__(Self).obj.max = ~max
        /\ SameItems(RawOf(__reversed__(Self).obj), raw(heap))
        /\ IterOf(__reversed__(Self).obj).out = Rev(list(heap).out)

\* the caller's list is as it was passed, and no list is shared
Exclusive ==
    /\ ~shared
    /\ other.kind = "list" => other.heap = other.orig

\* C17: the list passed to the constructor is neither reordered nor
\* aliased; copy() gives a Heap of the same orientation, key and iteration
\* sequence; a Heap from copy() or reversed() shares no buffer with the
\* original, and a mutating call on one object leaves the other object
\* and the caller's list as they were.
C17_OwnsBuffer ==
    [][/\ Exclusive
       /\ Exclusive'
       /\ last'.op = "mutate" => other' = other
       /\ last'.op \in {"copy", "__reversed__"}
              => heap' = heap /\ max' = max /\ key' = key
       /\ last'.op = "copy"
              => \A c \in {other'} :
                     /\ c.max = max
                     /\ c.key = key
                     /\ IterOf(c) = list(heap)]_vars

C17_Witness ==
    /\ other.kind = "Heap"
    /\ last.op = "mutate"
    /\ completed
    /\ Len(other.heap) = 2
    /\ other.key = "second"
    /\ other.max = max
    /\ ~SameItems(other.heap, heap)

\* C19: from the same input, ints or tuples of ints, the empty input
\* included, and after the same push, pop and reverse calls on both, the
\* Heap of no_private_imports and heap_class.Heap have the same iteration
\* sequence.
C19_SameIteration ==
    /\ neg.err = ""
    /\ list(heap).err = ""
    /\ Neg__iter__(neg).err = ""
    /\ Neg__iter__(neg).out = list(heap).out

\* a value a call on neg returned is one of the items stored, which are
\* the contents of the heap_class.Heap given the same calls
ReadsItem(r) == r.obj.err = "" => r.ret \in Elems(raw(heap))

\* C20: with max=True every value the Heap of no_private_imports returns
\* from raw(), iteration, peek, pop, index access, replace and pushpop is
\* an item as it was inserted, not its negation, and contains and count
\* answer for the item as it was inserted.
C20_NegationInverted ==
    neg.max /\ neg.err = "" =>
        /\ SameItems(Neg_raw(neg), raw(heap))
        /\ SameItems(Neg__iter__(neg).out, raw(heap))
        /\ neg.heap # <<>> => Neg_peek(neg) \in Elems(raw(heap))
        /\ \A ix \in Indices :
               ReadsItem(Neg_pop(neg, ix)) /\ ReadsItem(Neg__getitem__(neg, ix))
        /\ \A x \in Stored(neg.tup) :
               /\ ReadsItem(Neg_replace(neg, x))
               /\ Neg_pushpop(neg, x).obj.err = ""
               /\ Neg_pushpop(neg, x).ret \in Elems(raw(heap)) \cup {x}
               /\ Neg__contains__(neg, x) = Has(heap, x)
               /\ Neg_count(neg, x) = Count(raw(heap), x)

\* C21: a generator that has started yields, whatever push, pop, replace,
\* remove, clear or reverse does to the heap between its steps, the
\* contents the heap had when it started, in the order of the orientation
\* the heap had then: what it has yielded is a prefix of that sequence and,
\* once exhausted, all of it.
C21_IterationSnapshot ==
    iters # <<>> /\ iters[1].started =>
        /\ iters[1].err = ""
        /\ IsPrefix(iters[1].out, IterOf(other).out)
        /\ iters[1].done => iters[1].out = IterOf(other).out

====
